---- MODULE Spec2Model ----
(***************************************************************************)
(* pptoptimizer: the relationship graph of a .pptx package, the phases     *)
(* main runs over it (ParseFile, ConvertPictures, RemoveUnusedLayouts,     *)
(* RemoveUnusedMasters, RemoveUnusedMedias, SaveFile) and the archive      *)
(* SaveFile writes.                                                        *)
(*                                                                         *)
(* Strings are modelled by their structure.  An archive entry name or a    *)
(* relationship target is a record [dir, stem, num, ext]: the directory    *)
(* part (with its trailing slash), the alphabetic stem of the base name,   *)
(* the decimal number that follows the stem (0: none) and the extension.   *)
(* A path on disk (the -f argument) is a sequence of tokens.               *)
(***************************************************************************)
EXTENDS Integers, Sequences, FiniteSets, TLC

VARIABLES
    flags,       \* main: flagConvertBitmaps, flagCleanLayouts, flagAllOptimizations
    inputFile,   \* main: *flagInputFile
    disk,        \* the file system: path -> archive (sequence of entries)
    p,           \* the PowerpointDoc
    pc,          \* main's position
    pass,        \* 1 in the first run of main, 2 in the second
    exit         \* "" while running or ended normally, "panic" after a run-time panic

vars == <<flags, inputFile, disk, p, pc, pass, exit>>

-----------------------------------------------------------------------------
(* Bounds of the generated input packages *)

\* The layouts of a package are numbered 1..NumLayouts.
NumLayouts == 2
\* A package holds at most MaxImages image relationships.
MaxImages == 1
\* The -f arguments tried have at most MaxPathLen characters.
MaxPathLen == 4

-----------------------------------------------------------------------------
(* Names, relationships, entries *)

Name(d, s, n, e) == [dir |-> d, stem |-> s, num |-> n, ext |-> e]

NoName == Name("", "", 0, "")

TypeImage == "http://schemas.openxmlformats.org/officeDocument/2006/relationships/image"
TypeSlideLayout == "http://schemas.openxmlformats.org/officeDocument/2006/relationships/slideLayout"
TypeSlideMaster == "http://schemas.openxmlformats.org/officeDocument/2006/relationships/slideMaster"
TypeSlide == "http://schemas.openxmlformats.org/officeDocument/2006/relationships/slide"
TypeTheme == "http://schemas.openxmlformats.org/officeDocument/2006/relationships/theme"

Relationship(id, type, target) == [Id |-> id, Type |-> type, Target |-> target]

\* A Relationships value is its Relationship slice; Relationships{} is <<>>.
EmptyRelationships == <<>>

\* An element of a document tree that carries an r:id attribute.
Element(tag, rid) == [tag |-> tag, rid |-> rid]

\* The content-type manifest.
Types(def, ovr) == [Default |-> def, Override |-> ovr]

\* The decoded content of an archive entry.  kind says which field is meant:
\* "rels" (a relationship part), "types" (the manifest), "xml" (a document tree,
\* the sequence of its elements that carry an r:id), "raw" (bytes, named by the
\* entry they were first stored under), "png" (the PNG encoding of raw bytes).
Body(kind, rels, types, xml, raw) ==
    [kind |-> kind, rels |-> rels, types |-> types, xml |-> xml, raw |-> raw]

RelsBody(r) == Body("rels", r, Types(<<>>, <<>>), <<>>, NoName)
TypesBody(t) == Body("types", <<>>, t, <<>>, NoName)
XmlBody(x) == Body("xml", <<>>, Types(<<>>, <<>>), x, NoName)
RawBody(n) == Body("raw", <<>>, Types(<<>>, <<>>), <<>>, n)
PngBody(n) == Body("png", <<>>, Types(<<>>, <<>>), <<>>, n)

Entry(name, body) == [name |-> name, body |-> body]

\* A Media value: size is left out, data is nil or the encoded bytes.
Media(hasData, body) == [hasData |-> hasData, data |-> body]

\* A nil *etree.Document.
NilDoc == [isNil |-> TRUE, els |-> <<>>]
Doc(els) == [isNil |-> FALSE, els |-> els]

-----------------------------------------------------------------------------
(* Sequence helpers *)

Range(s) == {s[i] : i \in DOMAIN s}

\* s without its element at index k (copy(s[k:], s[k+1:]); s = s[:len(s)-1]).
RemoveAt(s, k) == [i \in 1..(Len(s) - 1) |-> IF i < k THEN s[i] ELSE s[i + 1]]

\* The smallest index of s that holds x, 0 if there is none: the loops that
\* break at the first match.
FirstIndex(s, x) ==
    IF \E i \in DOMAIN s : s[i] = x
    THEN CHOOSE i \in DOMAIN s : s[i] = x /\ \A j \in 1..(i - 1) : s[j] # x
    ELSE 0

\* The Target fields of a relationship slice.
Targets(r) == [k \in DOMAIN r |-> r[k].Target]

\* make([]T, pos); copy(new, s): s padded with zero values up to length pos.
GrowTo(s, pos, zero) == [i \in 1..pos |-> IF i <= Len(s) THEN s[i] ELSE zero]

-----------------------------------------------------------------------------
(* Strings: the operations the code applies to names and targets *)

\* The directories that start with the directory prefix d.
DirsUnder(d) ==
    CASE d = "ppt/slides/" -> {"ppt/slides/", "ppt/slides/_rels/"}
      [] d = "ppt/slideLayouts/" -> {"ppt/slideLayouts/", "ppt/slideLayouts/_rels/"}
      [] d = "ppt/slideMasters/" -> {"ppt/slideMasters/", "ppt/slideMasters/_rels/"}
      [] d = "ppt/media/" -> {"ppt/media/", "ppt/media/sub/"}
      [] OTHER -> {d}

\* strings.HasPrefix(name, d) for a prefix d that is a directory.
HasPrefix(name, d) == name.dir \in DirsUnder(d)

\* fmt.Sprintf("ppt/%ss/_rels/", reltype)
RelsDir(reltype) ==
    CASE reltype = "slide" -> "ppt/slides/_rels/"
      [] reltype = "slideLayout" -> "ppt/slideLayouts/_rels/"
      [] reltype = "slideMaster" -> "ppt/slideMasters/_rels/"

\* fmt.Sprintf("ppt/%ss/_rels/%s%d.xml.rels", reltype, reltype, n)
RelsPath(reltype, n) == Name(RelsDir(reltype), reltype, n, ".xml.rels")

ContentTypesPath == Name("", "[Content_Types]", 0, ".xml")
PresentationPath == Name("ppt/", "presentation", 0, ".xml")
PresentationRelsPath == Name("ppt/_rels/", "presentation", 0, ".xml.rels")
\* fmt.Sprintf("ppt/slideMasters/slideMaster%d.xml", n)
SlideMasterPath(n) == Name("ppt/slideMasters/", "slideMaster", n, ".xml")
SlideLayoutPath(n) == Name("ppt/slideLayouts/", "slideLayout", n, ".xml")
SlidePath(n) == Name("ppt/slides/", "slide", n, ".xml")
ThemePath == Name("ppt/theme/", "theme", 1, ".xml")

\* fmt.Sprintf("/ppt/slideLayouts/slideLayout%d.xml", n): a manifest part name
LayoutPartName(n) == Name("/ppt/slideLayouts/", "slideLayout", n, ".xml")
\* fmt.Sprintf("/ppt/slideMasters/slideMaster%d.xml", n)
MasterPartName(n) == Name("/ppt/slideMasters/", "slideMaster", n, ".xml")
\* fmt.Sprintf("../slideLayouts/slideLayout%d.xml", n): a target in a master's set
LayoutTarget(n) == Name("../slideLayouts/", "slideLayout", n, ".xml")
\* fmt.Sprintf("slideMasters/slideMaster%d.xml", n): a target in the presentation's set
MasterTargetInPresentation(n) == Name("slideMasters/", "slideMaster", n, ".xml")

\* reSlideNumber = `/[a-zA-Z]+([0-9]+)\.xml`: a slash, letters, digits, ".xml".
\* Stems are alphabetic except the manifest's, which the pattern also rejects
\* because no slash precedes it.  0 with the error the callers discard.
getObjectNumberFromFilename(fname) ==
    IF fname.dir # "" /\ fname.stem # "" /\ fname.num > 0
       /\ fname.ext \in {".xml", ".xml.rels"}
    THEN fname.num
    ELSE 0

\* filepath.Base
Base(name) == [name EXCEPT !.dir = ""]

\* filepath.Ext: from the last dot of the base name
Ext(name) == IF name.ext = ".xml.rels" THEN ".rels" ELSE name.ext

\* strings.ToLower on an extension
ToLower(e) == IF e = ".TIFF" THEN ".tiff" ELSE e

\* strings.Replace(s, ".tiff", ".png", 1): only an extension can hold ".tiff"
\* (no directory or stem of the model does), and the match is case-sensitive.
ReplaceTiffByPng(name) ==
    IF name.ext = ".tiff" THEN [name EXCEPT !.ext = ".png"] ELSE name

\* strings.HasSuffix(target, base) for a base name (dir = ""): no stem of the
\* model is a proper suffix of another, so the target's base name must be base.
HasSuffix(target, base) == Base(target) = base

\* strings.Replace(target, old, new, 1) when target ends with old and no
\* directory contains old: the base name is replaced.
ReplaceBase(target, new) == [new EXCEPT !.dir = target.dir]

\* A variant of ReplaceTarget without the test of the suffix: every target
\* gets the new base name.
ReplaceTargetOfAny(r, oldbasename, newbasename) ==
    [i \in DOMAIN r |-> [r[i] EXCEPT !.Target = ReplaceBase(r[i].Target, newbasename)]]

\* (r *Relationships) ReplaceTarget
ReplaceTarget(r, oldbasename, newbasename) ==
    [i \in DOMAIN r |->
        IF HasSuffix(r[i].Target, oldbasename)
        THEN [r[i] EXCEPT !.Target = ReplaceBase(r[i].Target, newbasename)]
        ELSE r[i]]

-----------------------------------------------------------------------------
(* The input packages: well-formed presentations.  Every slide names its   *)
(* layout and every layout its master; a master lists the layouts that     *)
(* name it, in its relationship set and in its tree; the presentation      *)
(* lists the masters and the slides; the manifest has an override for      *)
(* every XML part; any part may hold image relationships to media files    *)
(* of the package.                                                         *)

\* Two slides and two masters: a master can be used or not, by one slide or both.
Slides == 1..2
Layouts == 1..NumLayouts
Masters == 1..2

MediaUniverse ==
    << Name("ppt/media/", "a", 0, ".tiff"),
       Name("ppt/media/", "c", 0, ".png"),
       Name("ppt/media/", "b", 0, ".TIFF"),
       Name("ppt/media/sub/", "d", 0, ".png"),
       Name("ppt/media/", "a", 0, ".png"),
       Name("ppt/media/", "e", 0, ".tiff") >>

Owner(kind, n) == [kind |-> kind, n |-> n]

Owners ==
    {Owner("slide", i) : i \in Slides}
        \cup {Owner("slideLayout", i) : i \in Layouts}
        \cup {Owner("slideMaster", i) : i \in Masters}

\* The target of a relationship of a slide, layout or master to the file m.
MediaTarget(m) ==
    [m EXCEPT !.dir = IF @ = "ppt/media/sub/" THEN "../media/sub/" ELSE "../media/"]

\* The image relationships of an owner, with ids from firstId on.
ImageRels(owner, images, firstId) ==
    LET mine == SelectSeq(MediaUniverse, LAMBDA m : <<owner, m>> \in images)
    IN [k \in 1..Len(mine) |-> Relationship(firstId + k - 1, TypeImage, MediaTarget(mine[k]))]

SlideRelsOf(i, layoutOf, images) ==
    <<Relationship(1, TypeSlideLayout, LayoutTarget(layoutOf[i]))>>
        \o ImageRels(Owner("slide", i), images, 2)

LayoutRelsOf(j, masterOf, images) ==
    <<Relationship(1, TypeSlideMaster,
                   Name("../slideMasters/", "slideMaster", masterOf[j], ".xml"))>>
        \o ImageRels(Owner("slideLayout", j), images, 2)

\* The layouts of master m, ascending.
LayoutsOfMaster(m, masterOf) ==
    SelectSeq([j \in Layouts |-> j], LAMBDA j : masterOf[j] = m)

MasterRelsOf(m, masterOf, images) ==
    LET ls == LayoutsOfMaster(m, masterOf)
    IN [k \in 1..Len(ls) |-> Relationship(k, TypeSlideLayout, LayoutTarget(ls[k]))]
        \o <<Relationship(Len(ls) + 1, TypeTheme, Name("../theme/", "theme", 1, ".xml"))>>
        \o ImageRels(Owner("slideMaster", m), images, Len(ls) + 2)

MasterTreeOf(m, masterOf) ==
    [k \in 1..Len(LayoutsOfMaster(m, masterOf)) |-> Element("p:sldLayoutId", k)]

PresentationRelsOf ==
    [m \in Masters |-> Relationship(m, TypeSlideMaster, MasterTargetInPresentation(m))]
        \o [i \in Slides |->
                Relationship(Cardinality(Masters) + i, TypeSlide,
                             Name("slides/", "slide", i, ".xml"))]

PresentationTreeOf ==
    [m \in Masters |-> Element("p:sldMasterId", m)]
        \o [i \in Slides |-> Element("p:sldId", Cardinality(Masters) + i)]

ManifestOf ==
    Types(<<"xml", "rels", "tiff", "png">>,
          <<Name("/ppt/", "presentation", 0, ".xml")>>
              \o [i \in Slides |-> Name("/ppt/slides/", "slide", i, ".xml")]
              \o [j \in Layouts |-> LayoutPartName(j)]
              \o [m \in Masters |-> MasterPartName(m)]
              \o <<Name("/ppt/theme/", "theme", 1, ".xml")>>)

\* The archive of the package, in the order a producer stores it.
Package(layoutOf, masterOf, medias, images) ==
    << Entry(ContentTypesPath, TypesBody(ManifestOf)),
       Entry(PresentationRelsPath, RelsBody(PresentationRelsOf)),
       Entry(PresentationPath, XmlBody(PresentationTreeOf)) >>
        \o [i \in Slides |-> Entry(SlidePath(i), RawBody(SlidePath(i)))]
        \o [i \in Slides |->
                Entry(RelsPath("slide", i), RelsBody(SlideRelsOf(i, layoutOf, images)))]
        \o [j \in Layouts |-> Entry(SlideLayoutPath(j), RawBody(SlideLayoutPath(j)))]
        \o [j \in Layouts |->
                Entry(RelsPath("slideLayout", j), RelsBody(LayoutRelsOf(j, masterOf, images)))]
        \o [m \in Masters |-> Entry(SlideMasterPath(m), XmlBody(MasterTreeOf(m, masterOf)))]
        \o [m \in Masters |->
                Entry(RelsPath("slideMaster", m), RelsBody(MasterRelsOf(m, masterOf, images)))]
        \o <<Entry(ThemePath, RawBody(ThemePath))>>
        \o [k \in 1..Len(medias) |-> Entry(medias[k], RawBody(medias[k]))]

\* The media files a package may hold: none, a TIFF and a PNG, a TIFF whose
\* extension is in upper case, or a PNG in a subdirectory of ppt/media/.
MediaChoices ==
    {<<>>, SubSeq(MediaUniverse, 1, 2), SubSeq(MediaUniverse, 3, 3),
     SubSeq(MediaUniverse, 4, 4)}

\* The subsets of S with at most k elements.
RECURSIVE SubsetsUpTo(_, _)
SubsetsUpTo(S, k) ==
    IF k = 0 THEN {{}}
    ELSE LET T == SubsetsUpTo(S, k - 1) IN T \cup {t \cup {x} : t \in T, x \in S}

\* The image relationships a package may hold: at most MaxImages of them.
ImageChoices(medias) == SubsetsUpTo(Owners \X Range(medias), MaxImages)

Packages ==
    {Package(layoutOf, masterOf, medias, images) :
        layoutOf \in [Slides -> Layouts], masterOf \in [Layouts -> Masters],
        <<medias, images>> \in
            UNION {{<<ms, I>> : I \in ImageChoices(ms)} : ms \in MediaChoices}}

-----------------------------------------------------------------------------
(* PowerpointDoc *)

\* map[string]Media
EmptyMedias == [k \in {} |-> Media(FALSE, RawBody(NoName))]
MapSet(m, k, v) == [x \in (DOMAIN m) \cup {k} |-> IF x = k THEN v ELSE m[x]]
MapDelete(m, k) == [x \in (DOMAIN m) \ {k} |-> m[x]]

NewPowerpointDoc ==
    [ sourceFileReader |-> <<>>,
      medias |-> EmptyMedias,
      slideRels |-> <<>>,
      slideLayoutRels |-> <<>>,
      slideMasterRels |-> <<>>,
      presentationRels |-> EmptyRelationships,
      slideMasters |-> <<>>,
      presentation |-> NilDoc,
      contentTypes |-> Types(<<>>, <<>>) ]

\* The result of a step that may panic: the document and "" or "panic".
Ok(doc) == [doc |-> doc, exit |-> ""]
Panic(doc) == [doc |-> doc, exit |-> "panic"]

updateRelationships(rels, pos, r) ==
    [GrowTo(rels, IF pos > Len(rels) THEN pos ELSE Len(rels), EmptyRelationships)
        EXCEPT ![pos] = r]

updateSlideMasters(sms, pos, sm) ==
    [GrowTo(sms, IF pos > Len(sms) THEN pos ELSE Len(sms), NilDoc) EXCEPT ![pos] = sm]

\* parseAllRelationships: the entry is placed only if it is under the _rels
\* directory of reltype.
parseAllRelationships(rels, reltype, f) ==
    IF HasPrefix(f.name, RelsDir(reltype))
    THEN updateRelationships(rels, getObjectNumberFromFilename(f.name), f.body.rels)
    ELSE rels

\* The slot index a numbered entry is stored at is its number: number 0 (a name
\* the pattern rejects) indexes position -1, a run-time panic.
ParsePanicsOn(f) ==
    /\ ~HasPrefix(f.name, "ppt/media/")
    /\ f.name # ContentTypesPath
    /\ \/ f.name.dir = "ppt/slideMasters/" /\ f.name.stem = "slideMaster"
       \/ /\ f.name # PresentationRelsPath
          /\ f.name # PresentationPath
          /\ \E t \in {"slide", "slideLayout", "slideMaster"} : HasPrefix(f.name, RelsDir(t))
    /\ getObjectNumberFromFilename(f.name) = 0

\* The body of ParseFile's loop, for one archive entry.
ParseEntry(doc, f) ==
    IF HasPrefix(f.name, "ppt/media/")
    THEN [doc EXCEPT !.medias = MapSet(@, f.name, Media(FALSE, RawBody(NoName)))]
    ELSE IF f.name = ContentTypesPath
    THEN [doc EXCEPT !.contentTypes = f.body.types]
    ELSE IF f.name.dir = "ppt/slideMasters/" /\ f.name.stem = "slideMaster"
    THEN [doc EXCEPT !.slideMasters =
            updateSlideMasters(@, getObjectNumberFromFilename(f.name), Doc(f.body.xml))]
    ELSE IF f.name = PresentationRelsPath
    THEN [doc EXCEPT !.presentationRels = f.body.rels]
    ELSE IF f.name = PresentationPath
    THEN [doc EXCEPT !.presentation = Doc(f.body.xml)]
    ELSE [doc EXCEPT
            !.slideRels = parseAllRelationships(@, "slide", f),
            !.slideLayoutRels = parseAllRelationships(@, "slideLayout", f),
            !.slideMasterRels = parseAllRelationships(@, "slideMaster", f)]

RECURSIVE ParseFrom(_, _, _)
ParseFrom(doc, files, i) ==
    IF i > Len(files) THEN Ok(doc)
    ELSE IF ParsePanicsOn(files[i]) THEN Panic(doc)
    ELSE ParseFrom(ParseEntry(doc, files[i]), files, i + 1)

\* (p *PowerpointDoc) ParseFile(f), f holding the entries `files`
ParseFileOf(f, files) ==
    ParseFrom([NewPowerpointDoc EXCEPT !.sourceFileReader = f], files, 1)

-----------------------------------------------------------------------------
(* ConvertPictures *)

ReplaceTargetInAll(rels, oldbasename, newbasename) ==
    [i \in DOMAIN rels |-> ReplaceTarget(rels[i], oldbasename, newbasename)]

\* strings.ToLower(filepath.Ext(f.Name)) == ".tiff"
IsTiff(name) == ToLower(Ext(name)) = ".tiff"

\* The body of ConvertPictures' loop for one media entry with a TIFF extension.
\* The new entry is stored before the old key is deleted.
ConvertEntry(doc, f) ==
    LET newfilename == ReplaceTiffByPng(f.name)
        old == Base(f.name)
        new == ReplaceTiffByPng(Base(f.name))
    IN [doc EXCEPT
          !.medias = MapDelete(MapSet(@, newfilename, Media(TRUE, PngBody(f.body.raw))),
                               f.name),
          !.slideRels = ReplaceTargetInAll(@, old, new),
          !.slideLayoutRels = ReplaceTargetInAll(@, old, new),
          !.slideMasterRels = ReplaceTargetInAll(@, old, new)]

RECURSIVE ConvertFrom(_, _, _)
ConvertFrom(doc, files, i) ==
    IF i > Len(files) THEN doc
    ELSE LET f == files[i]
         IN ConvertFrom(IF HasPrefix(f.name, "ppt/media/") /\ IsTiff(f.name)
                        THEN ConvertEntry(doc, f) ELSE doc,
                        files, i + 1)

\* ConvertPictures, `files` being the entries of p.sourceFileReader
ConvertPicturesOf(doc, files) == ConvertFrom(doc, files, 1)

-----------------------------------------------------------------------------
(* Reachability *)

\* The numbers the relationships of type `type` in the sets `rels` resolve to.
ReferencedNumbers(rels, type) ==
    UNION {{getObjectNumberFromFilename(rels[i][k].Target) :
                k \in {k \in DOMAIN rels[i] : rels[i][k].Type = type}} :
            i \in DOMAIN rels}

\* usedSlideLayouts[n-1] = true with n outside 1..len is an index out of range.
FindUsedLayoutsPanics(doc) ==
    \E n \in ReferencedNumbers(doc.slideRels, TypeSlideLayout) :
        n < 1 \/ n > Len(doc.slideLayoutRels)

\* A variant of FindUsedLayouts that also counts the layouts the masters list.
FindUsedLayoutsOrListed(doc) ==
    [n \in 1..Len(doc.slideLayoutRels) |->
        n \in ReferencedNumbers(doc.slideRels, TypeSlideLayout)
                \cup ReferencedNumbers(doc.slideMasterRels, TypeSlideLayout)]

FindUsedLayouts(doc) ==
    [n \in 1..Len(doc.slideLayoutRels) |->
        n \in ReferencedNumbers(doc.slideRels, TypeSlideLayout)]

FindUsedMastersPanics(doc) ==
    \E n \in ReferencedNumbers(doc.slideLayoutRels, TypeSlideMaster) :
        n < 1 \/ n > Len(doc.slideMasterRels)

\* A variant of FindUsedMasters that counts every master the presentation lists.
FindUsedMastersListed(doc) ==
    [n \in 1..Len(doc.slideMasterRels) |->
        n \in ReferencedNumbers(<<doc.presentationRels>>, TypeSlideMaster)]

FindUsedMasters(doc) ==
    [n \in 1..Len(doc.slideMasterRels) |->
        n \in ReferencedNumbers(doc.slideLayoutRels, TypeSlideMaster)]

\* "ppt/media/" + filepath.Base(rel.Target) over the image relationships of
\* the slide, layout and master sets.
FindUsedMedias(doc) ==
    LET allrels == doc.slideRels \o doc.slideLayoutRels \o doc.slideMasterRels
    IN UNION {{[Base(allrels[i][k].Target) EXCEPT !.dir = "ppt/media/"] :
                k \in {k \in DOMAIN allrels[i] : allrels[i][k].Type = TypeImage}} :
              i \in DOMAIN allrels}

-----------------------------------------------------------------------------
(* Pruning *)

\* A variant of RemoveOverride that shortens the slice without the copy that
\* closes the gap: the last override goes instead of the one found.
RemoveOverrideNoCopy(types, partName) ==
    LET j == FirstIndex(types.Override, partName)
    IN IF j = 0 THEN types
       ELSE [types EXCEPT !.Override = SubSeq(@, 1, Len(@) - 1)]

\* The manifest without its first override for partName, if it has one.
RemoveOverride(types, partName) ==
    LET j == FirstIndex(types.Override, partName)
    IN IF j = 0 THEN types ELSE [types EXCEPT !.Override = RemoveAt(@, j)]

\* A variant of RemoveElements that leaves the tree as it is.
RemoveElementsNone(doc, tag, id) == doc

\* removeLayoutFromMaster / removeMasterFromPresentation: every element with
\* this tag and r:id is removed from its parent; none found is no error.
RemoveElements(doc, tag, id) ==
    Doc(SelectSeq(doc.els, LAMBDA e : ~(e.tag = tag /\ e.rid = id)))

removeLayoutFromMaster(master, id) == RemoveElements(master, "p:sldLayoutId", id)

removeMasterFromPresentation(presentation, id) ==
    RemoveElements(presentation, "p:sldMasterId", id)

\* The first relationship of master j that targets layout i, 0 if none.
LayoutRelIndex(doc, j, i) ==
    FirstIndex(Targets(doc.slideMasterRels[j]), LayoutTarget(i))

\* p.slideMasters[j] is indexed and dereferenced for every master whose set
\* targets the layout: a missing slot or a nil tree panics.
RemoveLayoutPanics(doc, i) ==
    \E j \in DOMAIN doc.slideMasterRels :
        /\ LayoutRelIndex(doc, j, i) # 0
        /\ \/ j > Len(doc.slideMasters)
           \/ doc.slideMasters[j].isNil

\* "remove from slide master": in every master, the first relationship that
\* targets layout i goes, with the tree elements that carry its id.
RemoveLayoutFromMasters(doc, i) ==
    [doc EXCEPT
        !.slideMasters =
            [j \in DOMAIN @ |->
                IF j \in DOMAIN doc.slideMasterRels /\ LayoutRelIndex(doc, j, i) # 0
                THEN removeLayoutFromMaster(
                        @[j], doc.slideMasterRels[j][LayoutRelIndex(doc, j, i)].Id)
                ELSE @[j]],
        !.slideMasterRels =
            [j \in DOMAIN @ |->
                IF LayoutRelIndex(doc, j, i) # 0
                THEN RemoveAt(@[j], LayoutRelIndex(doc, j, i))
                ELSE @[j]]]

\* The body of RemoveUnusedLayouts' loop for the unused layout i.
RemoveLayout(doc, i) ==
    LET d1 == [doc EXCEPT !.contentTypes = RemoveOverride(@, LayoutPartName(i))]
        d2 == RemoveLayoutFromMasters(d1, i)
    IN [d2 EXCEPT !.slideLayoutRels[i] = EmptyRelationships]

RECURSIVE RemoveLayoutsFrom(_, _, _)
RemoveLayoutsFrom(doc, used, i) ==
    IF i > Len(used) THEN Ok(doc)
    ELSE IF used[i] THEN RemoveLayoutsFrom(doc, used, i + 1)
    ELSE IF RemoveLayoutPanics(doc, i) THEN Panic(doc)
    ELSE RemoveLayoutsFrom(RemoveLayout(doc, i), used, i + 1)

RemoveUnusedLayoutsOf(doc) ==
    IF FindUsedLayoutsPanics(doc) THEN Panic(doc)
    ELSE RemoveLayoutsFrom(doc, FindUsedLayouts(doc), 1)

\* The first relationship of the presentation that targets master i, 0 if none.
MasterRelIndex(doc, i) ==
    FirstIndex(Targets(doc.presentationRels), MasterTargetInPresentation(i))

\* A nil presentation tree is dereferenced when a relationship targets the
\* master; p.slideMasters[i] = nil needs the slot to exist.
RemoveMasterPanics(doc, i) ==
    \/ MasterRelIndex(doc, i) # 0 /\ doc.presentation.isNil
    \/ i > Len(doc.slideMasters)

\* The body of RemoveUnusedMasters' loop for the unused master i.
RemoveMaster(doc, i) ==
    LET k == MasterRelIndex(doc, i)
        d1 == [doc EXCEPT !.contentTypes = RemoveOverride(@, MasterPartName(i))]
        d2 == IF k = 0 THEN d1
              ELSE [d1 EXCEPT
                      !.presentation =
                          removeMasterFromPresentation(@, doc.presentationRels[k].Id),
                      !.presentationRels = RemoveAt(@, k)]
    IN [d2 EXCEPT !.slideMasterRels[i] = EmptyRelationships,
                  !.slideMasters[i] = NilDoc]

RECURSIVE RemoveMastersFrom(_, _, _)
RemoveMastersFrom(doc, used, i) ==
    IF i > Len(used) THEN Ok(doc)
    ELSE IF used[i] THEN RemoveMastersFrom(doc, used, i + 1)
    ELSE IF RemoveMasterPanics(doc, i) THEN Panic(doc)
    ELSE RemoveMastersFrom(RemoveMaster(doc, i), used, i + 1)

\* A variant of RemoveUnusedMasters that computes the masters used from the
\* layout sets as they were read, before the removal of layouts.
RemoveUnusedMastersAsRead(doc) ==
    LET read == ParseFileOf(doc.sourceFileReader, disk[doc.sourceFileReader]).doc
    IN IF FindUsedMastersPanics(read) THEN Panic(doc)
       ELSE RemoveMastersFrom(doc, FindUsedMasters(read), 1)

RemoveUnusedMastersOf(doc) ==
    IF FindUsedMastersPanics(doc) THEN Panic(doc)
    ELSE RemoveMastersFrom(doc, FindUsedMasters(doc), 1)

RemoveUnusedMediasOf(doc) ==
    [doc EXCEPT !.medias =
        [k \in (DOMAIN @) \cap FindUsedMedias(doc) |-> @[k]]]

-----------------------------------------------------------------------------
(* SaveFile *)

\* The entries SaveFile's first loop does not copy because it rewrites them.
IsRewritten(name) ==
    \/ name = ContentTypesPath
    \/ HasPrefix(name, "ppt/slides/_rels/")
    \/ HasPrefix(name, "ppt/slideLayouts/_rels/")
    \/ HasPrefix(name, "ppt/_rels/")
    \/ HasPrefix(name, "ppt/slideMasters/")
    \/ name = PresentationPath

\* p.slideLayoutRels[layoutNumber-1] for a layout-area entry that reaches the test
CopyPanicsOn(doc, f) ==
    /\ ~IsRewritten(f.name)
    /\ ~(HasPrefix(f.name, "ppt/media/") /\ f.name \notin DOMAIN doc.medias)
    /\ HasPrefix(f.name, "ppt/slideLayouts/")
    /\ LET n == getObjectNumberFromFilename(f.name)
       IN n < 1 \/ n > Len(doc.slideLayoutRels)

\* A variant of IsCopied without the test of the layout's set: the bodies of
\* removed layouts are copied.
IsCopiedWithRemovedLayouts(doc, f) ==
    /\ ~IsRewritten(f.name)
    /\ ~(HasPrefix(f.name, "ppt/media/") /\ f.name \notin DOMAIN doc.medias)

IsCopied(doc, f) ==
    /\ ~IsRewritten(f.name)
    /\ ~(HasPrefix(f.name, "ppt/media/") /\ f.name \notin DOMAIN doc.medias)
    /\ HasPrefix(f.name, "ppt/slideLayouts/") =>
          Len(doc.slideLayoutRels[getObjectNumberFromFilename(f.name)]) >= 1

\* The first loop: the entries copied, up to a panic if there is one.
RECURSIVE CopyFrom(_, _, _, _)
CopyFrom(doc, files, i, out) ==
    IF i > Len(files) THEN [files |-> out, exit |-> ""]
    ELSE LET f == files[i]
         IN IF CopyPanicsOn(doc, f) THEN [files |-> out, exit |-> "panic"]
            ELSE CopyFrom(doc, files, i + 1,
                          IF IsCopied(doc, f) THEN Append(out, f) ELSE out)

\* "add new media files": the keys with data, in the order `keys` of the map's
\* iteration.
NewMediaEntries(doc, keys) ==
    LET withData == SelectSeq(keys, LAMBDA k : doc.medias[k].hasData)
    IN [i \in 1..Len(withData) |-> Entry(withData[i], doc.medias[withData[i]].data)]

\* A variant of saveAllRelationships that names a file by the index i of the
\* loop instead of i+1.
saveAllRelationshipsFromZero(rels, reltype) ==
    LET kept == SelectSeq([i \in 1..Len(rels) |-> i], LAMBDA i : Len(rels[i]) # 0)
    IN [k \in 1..Len(kept) |->
            Entry(RelsPath(reltype, kept[k] - 1), RelsBody(rels[kept[k]]))]

\* A variant of saveAllRelationships that numbers the files it writes 1, 2, ...
saveAllRelationshipsCompacted(rels, reltype) ==
    LET kept == SelectSeq([i \in 1..Len(rels) |-> i], LAMBDA i : Len(rels[i]) # 0)
    IN [k \in 1..Len(kept) |-> Entry(RelsPath(reltype, k), RelsBody(rels[kept[k]]))]

saveAllRelationships(rels, reltype) ==
    LET kept == SelectSeq([i \in 1..Len(rels) |-> i], LAMBDA i : Len(rels[i]) # 0)
    IN [k \in 1..Len(kept) |-> Entry(RelsPath(reltype, kept[k]), RelsBody(rels[kept[k]]))]

SavedSlideMasters(sms) ==
    LET kept == SelectSeq([i \in 1..Len(sms) |-> i], LAMBDA i : ~sms[i].isNil)
    IN [k \in 1..Len(kept) |-> Entry(SlideMasterPath(kept[k]), XmlBody(sms[kept[k]].els))]

\* The entries written after the copies, up to the presentation.
RewrittenEntries(doc, keys) ==
    NewMediaEntries(doc, keys)
        \o saveAllRelationships(doc.slideRels, "slide")
        \o saveAllRelationships(doc.slideLayoutRels, "slideLayout")
        \o saveAllRelationships(doc.slideMasterRels, "slideMaster")
        \o <<Entry(PresentationRelsPath, RelsBody(doc.presentationRels))>>
        \o <<Entry(ContentTypesPath, TypesBody(doc.contentTypes))>>
        \o SavedSlideMasters(doc.slideMasters)

\* (p *PowerpointDoc) SaveFile: the archive written, `files` being the entries
\* of p.sourceFileReader and `keys` the order in which the map is iterated.
\* Writing a nil presentation tree panics; the deferred Close calls leave what
\* was written before.
SaveFileOf(doc, files, keys) ==
    LET copied == CopyFrom(doc, files, 1, <<>>)
    IN IF copied.exit # "" THEN copied
       ELSE IF doc.presentation.isNil
       THEN [files |-> copied.files \o RewrittenEntries(doc, keys), exit |-> "panic"]
       ELSE [files |-> copied.files \o RewrittenEntries(doc, keys)
                          \o <<Entry(PresentationPath, XmlBody(doc.presentation.els))>>,
             exit |-> ""]

\* The orders in which a map with key set S can be iterated.
IterationOrders(S) ==
    {o \in [1..Cardinality(S) -> S] : \A i, j \in DOMAIN o : i # j => o[i] # o[j]}

-----------------------------------------------------------------------------
(* Paths on disk: sequences of characters *)

NewPptx == <<".", "n", "e", "w", ".", "p", "p", "t", "x">>

\* filepath.Ext: from the last dot of the last path element, "" if none
PathExt(path) ==
    LET dots == {i \in DOMAIN path :
                    path[i] = "." /\ \A j \in i..Len(path) : path[j] # "/"}
    IN IF dots = {} THEN <<>>
       ELSE SubSeq(path, CHOOSE i \in dots : \A j \in dots : j <= i, Len(path))

\* strings.Replace(str, old, new, 1): the first occurrence of old; an empty
\* old matches at the start of str.
StringsReplace(str, old, new) ==
    LET at == {i \in 1..(Len(str) - Len(old) + 1) :
                  SubSeq(str, i, i + Len(old) - 1) = old}
    IN IF at = {} THEN str
       ELSE LET i == CHOOSE i \in at : \A j \in at : i <= j
            IN SubSeq(str, 1, i - 1) \o new \o SubSeq(str, i + Len(old), Len(str))

\* A variant of outputFileName that gives the output the extension .pptx.
OutputFileNamePptx(f) == StringsReplace(f, PathExt(f), <<".", "p", "p", "t", "x">>)

\* main: outputFileName
OutputFileName(f) == StringsReplace(f, PathExt(f), NewPptx)

-----------------------------------------------------------------------------
(* main *)

\* -convert (default true), -layouts (default false), -a (default false)
Flags == [convert : BOOLEAN, layouts : BOOLEAN, all : BOOLEAN]
DefaultFlags == [convert |-> TRUE, layouts |-> FALSE, all |-> FALSE]
AllFlags == [convert |-> TRUE, layouts |-> FALSE, all |-> TRUE]

DeckPath == <<"d", ".", "p", "p", "t", "x">>

PathChars == {"d", ".", "/", "x"}

\* The -f arguments of the path specification: every short path, and the
\* names a user is likely to give.
InputPaths ==
    UNION {[1..n -> PathChars] : n \in 1..MaxPathLen}
        \cup {DeckPath, <<"d">> \o NewPptx, <<"d", ".", "x", "/">> \o DeckPath}

\* One package for the path specification.
SamplePackage ==
    Package([i \in Slides |-> 1], [j \in Layouts |-> 1], SubSeq(MediaUniverse, 1, 4),
            {<<Owner("slide", 1), MediaUniverse[1]>>})

InitWith(fs, paths, pkgs) ==
    /\ flags \in fs
    /\ inputFile \in paths
    /\ \E pkg \in pkgs : disk = [f \in {inputFile} |-> pkg]
    /\ p = NewPowerpointDoc
    /\ pc = "start"
    /\ pass = 1
    /\ exit = ""

Init == InitWith(Flags, {DeckPath}, Packages)

\* A phase ended with result r (the document and "" or "panic"); the
\* position after it is `next` unless the run died.
Continue(result, next) ==
    \E r \in {result} :
        /\ p' = r.doc
        /\ exit' = r.exit
        /\ pc' = IF r.exit = "" THEN next ELSE "exit"

\* *flagConvertBitmaps || *flagAllOptimizations
WantConvert(fl) == IF fl.convert THEN TRUE ELSE fl.all
\* *flagCleanLayouts || *flagAllOptimizations
WantClean(fl) == IF fl.layouts THEN TRUE ELSE fl.all

\* os.Stat(*flagInputFile); p.ParseFile(*flagInputFile)
ParseFile ==
    /\ pc = "start"
    /\ inputFile \in DOMAIN disk
    /\ Continue(ParseFileOf(inputFile, disk[inputFile]), "convert")
    /\ UNCHANGED <<flags, inputFile, disk, pass>>

\* if *flagConvertBitmaps || *flagAllOptimizations { p.ConvertPictures() }
ConvertPictures ==
    /\ pc = "convert"
    /\ WantConvert(flags)
    /\ Continue(Ok(ConvertPicturesOf(p, disk[p.sourceFileReader])), "layouts")
    /\ UNCHANGED <<flags, inputFile, disk, pass>>

SkipConvertPictures ==
    /\ pc = "convert"
    /\ ~WantConvert(flags)
    /\ pc' = "layouts"
    /\ UNCHANGED <<flags, inputFile, disk, p, pass, exit>>

\* if *flagCleanLayouts || *flagAllOptimizations { p.RemoveUnusedLayouts() ...
RemoveUnusedLayouts ==
    /\ pc = "layouts"
    /\ WantClean(flags)
    /\ Continue(RemoveUnusedLayoutsOf(p), "masters")
    /\ UNCHANGED <<flags, inputFile, disk, pass>>

SkipRemoveUnused ==
    /\ pc = "layouts"
    /\ ~WantClean(flags)
    /\ pc' = "save"
    /\ UNCHANGED <<flags, inputFile, disk, p, pass, exit>>

\* ... p.RemoveUnusedMasters() ...
RemoveUnusedMasters ==
    /\ pc = "masters"
    /\ Continue(RemoveUnusedMastersOf(p), "medias")
    /\ UNCHANGED <<flags, inputFile, disk, pass>>

\* ... p.RemoveUnusedMedias() }
RemoveUnusedMedias ==
    /\ pc = "medias"
    /\ Continue(Ok(RemoveUnusedMediasOf(p)), "save")
    /\ UNCHANGED <<flags, inputFile, disk, pass>>

\* p.SaveFile(outputFileName): os.Create makes or truncates the file
SaveFile ==
    /\ pc = "save"
    /\ \E keys \in IterationOrders({k \in DOMAIN p.medias : p.medias[k].hasData}) :
       \E r \in {SaveFileOf(p, disk[p.sourceFileReader], keys)} :
          /\ disk' = MapSet(disk, OutputFileName(inputFile), r.files)
          /\ exit' = r.exit
          /\ pc' = IF r.exit = "" THEN "done" ELSE "exit"
    /\ UNCHANGED <<flags, inputFile, p, pass>>

Next ==
    \/ ParseFile
    \/ ConvertPictures
    \/ SkipConvertPictures
    \/ RemoveUnusedLayouts
    \/ SkipRemoveUnused
    \/ RemoveUnusedMasters
    \/ RemoveUnusedMedias
    \/ SaveFile

Spec == Init /\ [][Next]_vars

\* The program run a second time, with the same switches, on the file it wrote.
RunAgain ==
    /\ pc = "done"
    /\ pass = 1
    /\ inputFile' = OutputFileName(inputFile)
    /\ p' = NewPowerpointDoc
    /\ pc' = "start"
    /\ pass' = pass + 1
    /\ UNCHANGED <<flags, disk, exit>>

InitRerun == InitWith({AllFlags}, {DeckPath}, Packages)

NextRerun ==
    \/ ParseFile
    \/ ConvertPictures
    \/ RemoveUnusedLayouts
    \/ RemoveUnusedMasters
    \/ RemoveUnusedMedias
    \/ SaveFile
    \/ RunAgain

SpecRerun == InitRerun /\ [][NextRerun]_vars

InitPath == InitWith(Flags, InputPaths, {SamplePackage})

SpecPath == InitPath /\ [][Next]_vars

\* Every switch off: -convert=false
NoFlags == [convert |-> FALSE, layouts |-> FALSE, all |-> FALSE]

InitPlain == InitWith({NoFlags}, {DeckPath}, Packages)

NextPlain ==
    \/ ParseFile
    \/ SkipConvertPictures
    \/ SkipRemoveUnused
    \/ SaveFile

SpecPlain == InitPlain /\ [][NextPlain]_vars

\* Packages with a TIFF beside a PNG of the same stem, or with two TIFFs.
EdgeMediaChoices ==
    {<<MediaUniverse[1], MediaUniverse[5]>>, <<MediaUniverse[1], MediaUniverse[6]>>}

EdgePackages ==
    {Package(layoutOf, masterOf, medias, images) :
        layoutOf \in [Slides -> Layouts], masterOf \in [Layouts -> Masters],
        <<medias, images>> \in
            UNION {{<<ms, I>> : I \in ImageChoices(ms)} : ms \in EdgeMediaChoices}}

InitEdge == InitWith(Flags, {DeckPath}, EdgePackages)

SpecEdge == InitEdge /\ [][Next]_vars

\* A package whose master and presentation trees have lost their reference
\* elements, the relationship sets being as they were.
WithoutTreeElements(pkg) ==
    [i \in DOMAIN pkg |->
        IF pkg[i].body.kind = "xml" THEN Entry(pkg[i].name, XmlBody(<<>>)) ELSE pkg[i]]

\* A package with one more slide relationship file, whose name has no number.
WithUnnumbered(pkg) ==
    Append(pkg, Entry(Name("ppt/slides/_rels/", "slide", 0, ".xml.rels"),
                      RelsBody(<<Relationship(1, TypeSlideLayout, LayoutTarget(1))>>)))

\* The packages without media.
BarePackages ==
    {Package(layoutOf, masterOf, <<>>, {}) :
        layoutOf \in [Slides -> Layouts], masterOf \in [Layouts -> Masters]}

MalformedPackages ==
    {WithoutTreeElements(pkg) : pkg \in BarePackages}
        \cup {WithUnnumbered(pkg) : pkg \in BarePackages}

InitMalformed == InitWith(Flags, {DeckPath}, MalformedPackages)

SpecMalformed == InitMalformed /\ [][Next]_vars

-----------------------------------------------------------------------------
(* Failures of the environment: a TIFF that does not decode, a file that   *)
(* cannot be created, an entry that cannot be opened or created.  Each     *)
(* ends the run through log.Fatal, which exits without running the         *)
(* deferred Close calls.                                                    *)

\* A file that may be at the output path before the run.
OldOutput == <<Entry(ThemePath, RawBody(ThemePath))>>

InitFail ==
    /\ flags = AllFlags
    /\ inputFile = DeckPath
    /\ \E pkg \in Packages :
          \/ disk = [f \in {inputFile} |-> pkg]
          \/ disk = [f \in {inputFile, OutputFileName(inputFile)} |->
                        IF f = inputFile THEN pkg ELSE OldOutput]
    /\ p = NewPowerpointDoc
    /\ pc = "start"
    /\ pass = 1
    /\ exit = ""

\* ConvertPictures: tiff.Decode or png.Encode returns an error for the i-th
\* entry, after the TIFF entries before it have been converted.
ConvertFails ==
    /\ pc = "convert"
    /\ WantConvert(flags)
    /\ \E i \in DOMAIN disk[p.sourceFileReader] :
          /\ HasPrefix(disk[p.sourceFileReader][i].name, "ppt/media/")
          /\ IsTiff(disk[p.sourceFileReader][i].name)
          /\ p' = ConvertPicturesOf(p, SubSeq(disk[p.sourceFileReader], 1, i - 1))
    /\ exit' = "fatal"
    /\ pc' = "exit"
    /\ UNCHANGED <<flags, inputFile, disk, pass>>

\* SaveFile: os.Create returns an error; nothing is written.
CreateFails ==
    /\ pc = "save"
    /\ exit' = "fatal"
    /\ pc' = "exit"
    /\ UNCHANGED <<flags, inputFile, disk, p, pass>>

\* SaveFile: os.Create has made or truncated the file, and f.Open or
\* outz.Create returns an error after n entries have been written.
SaveFileFails ==
    /\ pc = "save"
    /\ \E keys \in IterationOrders({k \in DOMAIN p.medias : p.medias[k].hasData}) :
       \E r \in {SaveFileOf(p, disk[p.sourceFileReader], keys)} :
       \E n \in 0..(Len(r.files) - 1) :
          disk' = MapSet(disk, OutputFileName(inputFile), SubSeq(r.files, 1, n))
    /\ exit' = "fatal"
    /\ pc' = "exit"
    /\ UNCHANGED <<flags, inputFile, p, pass>>

NextFail ==
    \/ ParseFile
    \/ ConvertPictures
    \/ ConvertFails
    \/ RemoveUnusedLayouts
    \/ RemoveUnusedMasters
    \/ RemoveUnusedMedias
    \/ CreateFails
    \/ SaveFile
    \/ SaveFileFails

SpecFail == InitFail /\ [][NextFail]_vars

-----------------------------------------------------------------------------
(* Vocabulary of the properties *)

\* The graph as it was when reading ended in the current run.
Parsed == ParseFileOf(p.sourceFileReader, disk[p.sourceFileReader]).doc

\* The relationships of type `type` in the set r.
OfType(r, type) == {r[k] : k \in {k \in DOMAIN r : r[k].Type = type}}

\* Integer slot numbers of a collection
Slots(rels) == 1..Len(rels)

Tombstoned(rels, n) == rels[n] = EmptyRelationships

\* Some slide references layout slot n.
LayoutUsedBySlide(doc, n) ==
    \E i \in Slots(doc.slideRels) :
        \E r \in OfType(doc.slideRels[i], TypeSlideLayout) :
            getObjectNumberFromFilename(r.Target) = n

\* Some retained layout references master slot m.
MasterUsedByRetainedLayout(doc, m) ==
    \E j \in Slots(doc.slideLayoutRels) :
        /\ ~Tombstoned(doc.slideLayoutRels, j)
        /\ \E r \in OfType(doc.slideLayoutRels[j], TypeSlideMaster) :
              getObjectNumberFromFilename(r.Target) = m

MasterRetained(doc, m) ==
    /\ ~Tombstoned(doc.slideMasterRels, m)
    /\ m <= Len(doc.slideMasters)
    /\ ~doc.slideMasters[m].isNil

\* Some image relationship of a slide, layout or master set targets a file
\* with the base name of key.
MediaReferenced(doc, key) ==
    \E rels \in {doc.slideRels, doc.slideLayoutRels, doc.slideMasterRels} :
        \E i \in Slots(rels) :
            \E r \in OfType(rels[i], TypeImage) : Base(r.Target) = Base(key)

-----------------------------------------------------------------------------
(* C1: after RemoveUnusedLayouts a layout slot is retained (its set is not *)
(* empty) exactly when some slide has a slideLayout relationship that      *)
(* resolves to the slot's number, whatever the state of the masters: in    *)
(* the first run every master is present, in the second the masters the    *)
(* first run removed are empty slots with a nil tree.                      *)

C1_LayoutRetainedIffUsedBySlide ==
    pc = "masters" =>
        \A n \in Slots(p.slideLayoutRels) :
            ~Tombstoned(p.slideLayoutRels, n) <=> LayoutUsedBySlide(p, n)

\* RemoveUnusedLayouts has removed one layout and kept another.
C1_Witness ==
    /\ pc = "masters"
    /\ pass = 1
    /\ \E n \in Slots(p.slideLayoutRels) :
          Tombstoned(p.slideLayoutRels, n) /\ ~Tombstoned(Parsed.slideLayoutRels, n)
    /\ \E n \in Slots(p.slideLayoutRels) : ~Tombstoned(p.slideLayoutRels, n)

(* C2: after RemoveUnusedLayouts and RemoveUnusedMasters a master slot is  *)
(* retained (its set is not empty and its tree is not nil) exactly when    *)
(* some retained layout has a slideMaster relationship that resolves to    *)
(* it.                                                                     *)

C2_MasterRetainedIffUsedByRetainedLayout ==
    pc = "medias" =>
        \A m \in Slots(p.slideMasterRels) :
            MasterRetained(p, m) <=> MasterUsedByRetainedLayout(p, m)

\* A master that only removed layouts referenced has been removed, another kept.
C2_Witness ==
    /\ pc = "medias"
    /\ pass = 1
    /\ \E m \in Slots(p.slideMasterRels) :
          /\ ~MasterRetained(p, m)
          /\ \E j \in Slots(p.slideLayoutRels) :
                /\ Tombstoned(p.slideLayoutRels, j)
                /\ \E r \in OfType(Parsed.slideLayoutRels[j], TypeSlideMaster) :
                      getObjectNumberFromFilename(r.Target) = m
    /\ \E m \in Slots(p.slideMasterRels) : MasterRetained(p, m)

(* C3: RemoveUnusedMedias, run after the removal of layouts and masters,   *)
(* keeps exactly the media keys whose base name is the base name of the    *)
(* target of an image relationship of a surviving slide, layout or master  *)
(* set.                                                                    *)

C3_MediaKeptIffReferenced ==
    [][pc = "medias" =>
          DOMAIN p'.medias = {k \in DOMAIN p.medias : MediaReferenced(p', k)}]_vars

\* The archive the current run has written.
Output == disk[OutputFileName(inputFile)]

Names(files) == {files[i].name : i \in DOMAIN files}

\* The entry a relationship target names: the targets of the slide, layout
\* and master sets are relative to a directory under ppt/, those of the
\* presentation's set to ppt/.
ResolveTarget(target) ==
    [target EXCEPT !.dir =
        CASE @ = "../media/" -> "ppt/media/"
          [] @ = "../media/sub/" -> "ppt/media/sub/"
          [] @ = "../slideLayouts/" -> "ppt/slideLayouts/"
          [] @ = "../slideMasters/" -> "ppt/slideMasters/"
          [] @ = "../theme/" -> "ppt/theme/"
          [] @ = "slideMasters/" -> "ppt/slideMasters/"
          [] @ = "slides/" -> "ppt/slides/"
          [] OTHER -> @]

\* The entry a part name of the manifest names: the name without its first slash.
PartEntry(partName) ==
    [partName EXCEPT !.dir =
        CASE @ = "/ppt/" -> "ppt/"
          [] @ = "/ppt/slides/" -> "ppt/slides/"
          [] @ = "/ppt/slideLayouts/" -> "ppt/slideLayouts/"
          [] @ = "/ppt/slideMasters/" -> "ppt/slideMasters/"
          [] @ = "/ppt/theme/" -> "ppt/theme/"
          [] OTHER -> @]

\* No relationship of the archive targets an absent entry and no override
\* of its manifest names one.
Closed(files) ==
    \A i \in DOMAIN files :
        /\ files[i].body.kind = "rels" =>
              \A k \in DOMAIN files[i].body.rels :
                  ResolveTarget(files[i].body.rels[k].Target) \in Names(files)
        /\ files[i].body.kind = "types" =>
              \A k \in DOMAIN files[i].body.types.Override :
                  PartEntry(files[i].body.types.Override[k]) \in Names(files)

(* C4: after the four optimizations and SaveFile the output is closed: no  *)
(* relationship of a slide, layout, master or presentation set targets a   *)
(* part that is absent from the output, and no override of the manifest    *)
(* names one.                                                              *)

C4_OutputClosed == (pc = "done" /\ flags.all) => Closed(Output)

\* The name the conversion gives to a file: its extension replaced by .png
PngName(name) == [name EXCEPT !.ext = ".png"]

RelCollections == {"slideRels", "slideLayoutRels", "slideMasterRels"}

(* C5: after ConvertPictures, for every media entry with the extension     *)
(* .tiff in any letter case, (a) the old key is absent from the index,     *)
(* (b) the key with the extension .png is present with a payload, and (c)  *)
(* every relationship of a slide, layout or master set that targeted the   *)
(* old base name targets the new one in the same directory, and none       *)
(* targets the old one.                                                    *)

C5_TiffTranscoded ==
    (pc = "layouts" /\ WantConvert(flags)) =>
        \A key \in {k \in DOMAIN Parsed.medias : IsTiff(k)} :
            /\ key \notin DOMAIN p.medias
            /\ PngName(key) \in DOMAIN p.medias
            /\ p.medias[PngName(key)].hasData
            /\ \A c \in RelCollections : \A i \in Slots(p[c]) : \A k \in DOMAIN p[c][i] :
                  /\ Base(Parsed[c][i][k].Target) = Base(key) =>
                        p[c][i][k].Target = PngName(Parsed[c][i][k].Target)
                  /\ Base(p[c][i][k].Target) # Base(key)

\* The graph after the conversion and the three removals.
Optimized(doc, files) ==
    RemoveUnusedMediasOf(
        RemoveUnusedMastersOf(
            RemoveUnusedLayoutsOf(ConvertPicturesOf(doc, files)).doc).doc)

\* The graph differs from the one read by the conversion of TIFF files only.
OnlyTranscoded ==
    /\ p.contentTypes = Parsed.contentTypes
    /\ p.slideMasters = Parsed.slideMasters
    /\ p.presentation = Parsed.presentation
    /\ p.presentationRels = Parsed.presentationRels
    /\ \A c \in RelCollections :
          /\ Len(p[c]) = Len(Parsed[c])
          /\ \A i \in Slots(p[c]) :
                /\ Len(p[c][i]) = Len(Parsed[c][i])
                /\ \A k \in DOMAIN p[c][i] :
                      \/ p[c][i][k] = Parsed[c][i][k]
                      \/ /\ IsTiff(Parsed[c][i][k].Target)
                         /\ p[c][i][k] =
                               [Parsed[c][i][k] EXCEPT !.Target = PngName(@)]
    /\ \A key \in DOMAIN Parsed.medias :
          IF IsTiff(key) THEN PngName(key) \in DOMAIN p.medias
          ELSE key \in DOMAIN p.medias

(* C9: with the default switches the run applies the conversion of TIFF    *)
(* files only: no layout, master or media entry is removed and the         *)
(* manifest and the trees are unchanged; with -a it applies the conversion *)
(* and the three removals.                                                 *)

C9_DefaultOnlyTranscodes ==
    pc = "done" =>
        /\ flags = DefaultFlags => OnlyTranscoded
        /\ flags.all => p = Optimized(Parsed, disk[inputFile])

(* C6: a second run with every optimization, on the output of a first such *)
(* run, changes nothing: from the graph it reads, the conversion and the   *)
(* three removals remove no override, no relationship, no tree element and *)
(* no media key, and empty no slot.                                        *)

C6_SecondPassChangesNothing ==
    [][(pass = 2 /\ pc \in {"convert", "layouts", "masters", "medias"}) =>
          (p' = p /\ exit' = "")]_vars

\* The second run has ended, and the first had removed a layout, a master
\* and a media file from the package.
C6_Witness ==
    /\ pass = 2
    /\ pc = "done"
    /\ \E n \in Layouts : SlideLayoutPath(n) \notin Names(disk[inputFile])
    /\ \E n \in Masters : SlideMasterPath(n) \notin Names(disk[inputFile])
    /\ \E n \in Names(disk[DeckPath]) :
          n.dir = "ppt/media/" /\ n.ext = ".png" /\ n \notin Names(disk[inputFile])
    /\ Output # <<>>

(* C7: with every switch off the output holds the same parts as the input, *)
(* with the same relationships in every set, the same manifest and the     *)
(* same master and presentation trees.                                     *)

C8_InputNeverWritten ==
    /\ OutputFileName(inputFile) # inputFile
    /\ inputFile \in DOMAIN disk
    /\ disk[inputFile] = SamplePackage
    /\ DOMAIN disk \subseteq {inputFile, OutputFileName(inputFile)}

\* The run has written its output for an input path without the extension
\* .pptx, which holds ".new.pptx" already.
C8_Witness ==
    /\ pc = "done"
    /\ OutputFileName(inputFile) \in DOMAIN disk
    /\ \/ PathExt(inputFile) = <<>>
       \/ SubSeq(inputFile, 2, Len(inputFile)) = NewPptx

\* The relationships of r, their targets without directory and extension.
Stripped(r) ==
    {[Id |-> r[k].Id, Type |-> r[k].Type, stem |-> r[k].Target.stem,
      num |-> r[k].Target.num] : k \in DOMAIN r}

\* The kind of part of a collection
KindOf(c) ==
    CASE c = "slideRels" -> "slide"
      [] c = "slideLayoutRels" -> "slideLayout"
      [] c = "slideMasterRels" -> "slideMaster"

(* C10: sequence numbers are stable.  The conversion and the removals      *)
(* never move a relationship set or a master tree to another slot: the     *)
(* collections keep their lengths and what a slot holds comes from what    *)
(* the same slot held when reading ended.  SaveFile writes every set that  *)
(* is not empty and every tree that is not nil under the number of its     *)
(* slot and nothing under the number of an emptied slot, so the numbers of *)
(* the output have gaps.                                                   *)

C10_SequenceNumbersStable ==
    /\ pc \in {"convert", "layouts", "masters", "medias", "save", "done"} =>
          LET read == Parsed
          IN /\ \A c \in RelCollections :
                   /\ Len(p[c]) = Len(read[c])
                   /\ \A n \in Slots(p[c]) :
                         Stripped(p[c][n]) \subseteq Stripped(read[c][n])
             /\ Len(p.slideMasters) = Len(read.slideMasters)
             /\ \A n \in Slots(p.slideMasters) :
                   Range(p.slideMasters[n].els) \subseteq Range(read.slideMasters[n].els)
    /\ pc = "done" =>
          LET out == Output
              names == Names(out)
          IN /\ \A c \in RelCollections : \A n \in Slots(p[c]) :
                   IF Tombstoned(p[c], n)
                   THEN RelsPath(KindOf(c), n) \notin names
                   ELSE Entry(RelsPath(KindOf(c), n), RelsBody(p[c][n])) \in Range(out)
             /\ \A n \in Slots(p.slideMasters) :
                   IF p.slideMasters[n].isNil
                   THEN SlideMasterPath(n) \notin names
                   ELSE Entry(SlideMasterPath(n), XmlBody(p.slideMasters[n].els))
                           \in Range(out)
             /\ \A n \in Slots(p.slideLayoutRels) :
                   SlideLayoutPath(n) \in names <=> ~Tombstoned(p.slideLayoutRels, n)
             /\ \A e \in Range(out) :
                   /\ \A c \in RelCollections :
                         e.name.dir = RelsDir(KindOf(c)) => e.name.num \in Slots(p[c])
                   /\ e.name.dir = "ppt/slideMasters/" =>
                         e.name.num \in Slots(p.slideMasters)

\* The output has a gap: layout 1 and master 1 are removed, layout 2 and
\* master 2 are written under their numbers.
C10_Witness ==
    /\ pc = "done"
    /\ pass = 1
    /\ Tombstoned(p.slideLayoutRels, 1)
    /\ p.slideMasters[1].isNil
    /\ RelsPath("slideLayout", 2) \in Names(Output)
    /\ SlideMasterPath(2) \in Names(Output)
    /\ RelsPath("slideLayout", 1) \notin Names(Output)

\* The base names ConvertPictures transcodes: those of the indexed files with
\* a TIFF extension.
TranscodedBases(doc) == {Base(k) : k \in {k \in DOMAIN doc.medias : IsTiff(k)}}

(* C11: slides are never pruned and pruning never edits them.  The three   *)
(* removals leave every slide set unchanged.  ConvertPictures changes a    *)
(* slide set only in the target of relationships whose target had the base *)
(* name of a transcoded file: the ids, the types, the order and the number *)
(* of the relationships stay, and a set that referenced no transcoded file *)
(* is untouched.                                                           *)

AlwaysRewritten(name) ==
    \/ name = ContentTypesPath
    \/ name = PresentationPath
    \/ name.dir \in {"ppt/slides/_rels/", "ppt/slideLayouts/_rels/",
                     "ppt/slideMasters/_rels/", "ppt/_rels/", "ppt/slideMasters/"}

\* The original entries SaveFile copies unchanged.
CopiedUnchanged(doc, files) ==
    {f \in Range(files) :
        /\ ~AlwaysRewritten(f.name)
        /\ f.name.dir \in {"ppt/media/", "ppt/media/sub/"} => f.name \in DOMAIN doc.medias
        /\ f.name.dir = "ppt/slideLayouts/" =>
              ~Tombstoned(doc.slideLayoutRels, f.name.num)}

\* The entries SaveFile serializes from the graph, under their canonical paths.
FreshlySerialized(doc) ==
    {Entry(ContentTypesPath, TypesBody(doc.contentTypes)),
     Entry(PresentationRelsPath, RelsBody(doc.presentationRels)),
     Entry(PresentationPath, XmlBody(doc.presentation.els))}
        \cup UNION {{Entry(RelsPath(KindOf(c), n), RelsBody(doc[c][n])) :
                        n \in {n \in Slots(doc[c]) : ~Tombstoned(doc[c], n)}} :
                    c \in RelCollections}
        \cup {Entry(SlideMasterPath(n), XmlBody(doc.slideMasters[n].els)) :
                n \in {n \in Slots(doc.slideMasters) : ~doc.slideMasters[n].isNil}}

\* The media keys with a payload, written from the payload.
WrittenFromPayload(doc) ==
    {Entry(k, doc.medias[k].data) : k \in {k \in DOMAIN doc.medias : doc.medias[k].hasData}}

(* C12, as stated: the entries SaveFile emits are exactly the original     *)
(* entries that are neither of an always rewritten class, nor a media key  *)
(* removed from the index, nor a layout-area entry whose set is empty,     *)
(* copied unchanged, and the manifest, the non-empty slide, layout and     *)
(* master sets, the presentation set, the non-nil master trees and the     *)
(* presentation tree, freshly serialized under their canonical paths.      *)

C12_EmittedExactlyCopiedAndSerialized ==
    pc = "done" =>
        Range(Output) =
            CopiedUnchanged(p, disk[inputFile]) \cup FreshlySerialized(p)

(* C12, amended: the entries SaveFile emits are exactly those of the       *)
(* statement above and the media keys that have a payload, each written    *)
(* from its payload.                                                       *)

C12_EmittedExactly ==
    pc = "done" =>
        Range(Output) =
            CopiedUnchanged(p, disk[inputFile]) \cup FreshlySerialized(p)
                \cup WrittenFromPayload(p)

\* The run has written a transcoded file from its payload and skipped the
\* body of a removed layout.
C12_Witness ==
    /\ pc = "done"
    /\ pass = 1
    /\ WrittenFromPayload(p) # {}
    /\ WrittenFromPayload(p) \subseteq Range(Output)
    /\ \E n \in Slots(p.slideLayoutRels) :
          /\ Tombstoned(p.slideLayoutRels, n)
          /\ SlideLayoutPath(n) \in Names(disk[inputFile])
          /\ SlideLayoutPath(n) \notin Names(Output)

(* C13: a fatal failure leaves no partially written output: when the run   *)
(* has ended by a failure (a TIFF that does not decode, an entry that      *)
(* cannot be opened, created or written), the output path holds no file,   *)
(* or holds the file that was there before the run, unchanged.             *)

C13_NoPartialOutput ==
    exit # "" =>
        \/ OutputFileName(inputFile) \notin DOMAIN disk
        \/ disk[OutputFileName(inputFile)] = OldOutput

(* C14: every media key with a payload is written from the payload         *)
(* instead of being copied: the output holds exactly one entry under the   *)
(* key and its bytes are the payload, also when the original archive has   *)
(* an entry of that name.                                                  *)

C14_PayloadWrittenOnce ==
    pc = "done" =>
        \A k \in {k \in DOMAIN p.medias : p.medias[k].hasData} :
            /\ Cardinality({i \in DOMAIN Output : Output[i].name = k}) = 1
            /\ \A i \in DOMAIN Output :
                  Output[i].name = k => Output[i].body = p.medias[k].data

\* An unused layout is targeted by a relationship of a master whose tree is
\* absent or has no p:sldLayoutId element with the relationship's id.
LayoutReferenceMissing(doc) ==
    \E i \in Slots(doc.slideLayoutRels) :
        /\ ~LayoutUsedBySlide(doc, i)
        /\ \E j \in Slots(doc.slideMasterRels) :
           \E r \in Range(doc.slideMasterRels[j]) :
              /\ r.Target = LayoutTarget(i)
              /\ \/ j > Len(doc.slideMasters)
                 \/ doc.slideMasters[j].isNil
                 \/ \A e \in Range(doc.slideMasters[j].els) :
                       ~(e.tag = "p:sldLayoutId" /\ e.rid = r.Id)

\* An unused master is targeted by a relationship of the presentation, whose
\* tree is absent or has no p:sldMasterId element with the relationship's id.
MasterReferenceMissing(doc) ==
    \E i \in Slots(doc.slideMasterRels) :
        /\ ~MasterUsedByRetainedLayout(doc, i)
        /\ \E r \in Range(doc.presentationRels) :
              /\ r.Target = MasterTargetInPresentation(i)
              /\ \/ doc.presentation.isNil
                 \/ \A e \in Range(doc.presentation.els) :
                       ~(e.tag = "p:sldMasterId" /\ e.rid = r.Id)

(* C15: when a layout (or a master) is removed and a relationship of a     *)
(* master (or of the presentation) targets it, the reference element with  *)
(* the relationship's id must be in the owning tree: if the element is     *)
(* missing, or the tree is absent, the removal ends the run with a fatal   *)
(* error instead of continuing.                                            *)

C15_MissingReferenceIsFatal ==
    [][/\ (pc = "layouts" /\ WantClean(flags) /\ LayoutReferenceMissing(p)) => exit' # ""
       /\ (pc = "masters" /\ MasterReferenceMissing(p)) => exit' # ""]_vars

\* The entries ParseFile places in a numbered slot: the relationship files of
\* slides, layouts and masters and the master bodies.
Numbered(name) ==
    name.dir \in {"ppt/slides/_rels/", "ppt/slideLayouts/_rels/",
                  "ppt/slideMasters/_rels/", "ppt/slideMasters/"}

\* The archive without the numbered entries whose name does not match the pattern.
WellNamed(files) ==
    SelectSeq(files,
              LAMBDA f : Numbered(f.name) => getObjectNumberFromFilename(f.name) # 0)

(* C16: a part whose file name does not match the numbering pattern is a   *)
(* recoverable condition: the run does not abort, the entry is placed in   *)
(* no numbered slot and no other slot is changed, so that reading ends     *)
(* with the graph of the archive without that entry.                       *)

C16_BadNameIsRecoverable ==
    /\ exit # "panic"
    /\ pc = "convert" => p = ParseFileOf(inputFile, WellNamed(disk[inputFile])).doc

\* FindUsedMedias marks the key: some image relationship of a slide, layout
\* or master set has a target with the key's base name, the key being
\* directly under ppt/media/.
MediaMarked(doc, key) == key.dir = "ppt/media/" /\ MediaReferenced(doc, key)

\* The positions of main, in the order in which a run with every
\* optimization goes through them.
PhaseOrder == <<"start", "convert", "layouts", "masters", "medias", "save", "done">>

(* C17: in a run with the conversion and the removals, the phases execute  *)
(* in the order ConvertPictures, RemoveUnusedLayouts, RemoveUnusedMasters, *)
(* RemoveUnusedMedias, SaveFile.  The masters kept are those used by the   *)
(* layout sets as they stand after the removal of layouts, the media keys  *)
(* kept are those marked by the sets as they stand after the conversion    *)
(* and the removal of layouts and masters, and SaveFile does not change    *)
(* the graph.                                                              *)

C17_PhasesInOrder ==
    [][/\ pass' = pass =>
             \/ pc' = "exit"
             \/ \E i \in 1..(Len(PhaseOrder) - 1) :
                   pc = PhaseOrder[i] /\ pc' = PhaseOrder[i + 1]
       /\ (pc = "masters" /\ pc' = "medias") =>
             \A m \in Slots(p.slideMasterRels) :
                 MasterRetained(p', m) <=>
                     (MasterRetained(p, m) /\ MasterUsedByRetainedLayout(p, m))
       /\ (pc = "medias" /\ pc' = "save") =>
             DOMAIN p'.medias = {k \in DOMAIN p.medias : MediaMarked(p, k)}
       /\ pc = "save" => p' = p]_vars

\* A run has converted a TIFF that only a removed layout referenced, removed
\* the layout, a master and the converted file, and written its output.
C17_Witness ==
    /\ pc = "done"
    /\ pass = 1
    /\ \E n \in Slots(p.slideLayoutRels) : Tombstoned(p.slideLayoutRels, n)
    /\ \E m \in Slots(p.slideMasters) : p.slideMasters[m].isNil
    /\ \E k \in DOMAIN Parsed.medias :
          k.ext = ".tiff" /\ k \notin DOMAIN p.medias /\ PngName(k) \notin DOMAIN p.medias

Ids(r) == {r[k].Id : k \in DOMAIN r}

\* The elements of a tree with the tag `tag`.
Tagged(doc, tag) == {e \in Range(doc.els) : e.tag = tag}

\* Every layout reference of a master tree carries an id of the master's
\* set, and every master reference of the presentation tree an id of the
\* presentation's set.
InStep(doc) ==
    /\ \A j \in Slots(doc.slideMasters) :
          \A e \in Tagged(doc.slideMasters[j], "p:sldLayoutId") :
              j \in Slots(doc.slideMasterRels) /\ e.rid \in Ids(doc.slideMasterRels[j])
    /\ \A e \in Tagged(doc.presentation, "p:sldMasterId") :
          e.rid \in Ids(doc.presentationRels)

\* The tree `after` is the tree `before` without the elements with the tag
\* `tag` and an id of `removed`, the others in their order.
WithoutReferences(before, after, tag, removed) ==
    after = Doc(SelectSeq(before.els, LAMBDA e : ~(e.tag = tag /\ e.rid \in removed)))

(* C18: the trees and the relationship sets stay in step under pruning.    *)
(* If, before RemoveUnusedLayouts or RemoveUnusedMasters, every reference  *)
(* element of a master tree and of the presentation tree carries an id of  *)
(* the owning set, then the same holds after, and the elements removed     *)
(* from a retained tree are exactly those whose id belonged to a removed   *)
(* relationship.                                                           *)

C18_TreesInStep ==
    [][(pc \in {"layouts", "masters"} /\ InStep(p)) =>
          /\ InStep(p')
          /\ \A j \in Slots(p'.slideMasters) :
                ~p'.slideMasters[j].isNil =>
                    WithoutReferences(p.slideMasters[j], p'.slideMasters[j], "p:sldLayoutId",
                        Ids(p.slideMasterRels[j]) \ Ids(p'.slideMasterRels[j]))
          /\ WithoutReferences(p.presentation, p'.presentation, "p:sldMasterId",
                Ids(p.presentationRels) \ Ids(p'.presentationRels))]_vars

\* Pruning has removed a layout reference from the tree of a retained master
\* and a master reference from the presentation tree.
C18_Witness ==
    /\ pc = "medias"
    /\ pass = 1
    /\ InStep(Parsed)
    /\ \E j \in Slots(p.slideMasters) :
          /\ ~p.slideMasters[j].isNil
          /\ Len(p.slideMasters[j].els) < Len(Parsed.slideMasters[j].els)
    /\ Len(p.presentation.els) < Len(Parsed.presentation.els)

\* The media keys SaveFile writes from their payload.
PayloadKeys(doc) == {k \in DOMAIN doc.medias : doc.medias[k].hasData}

(* C19: SaveFile's output is deterministic: for the same graph and the     *)
(* same original archive, any two runs emit the same entries in the same   *)
(* order, whatever the order in which the media index is iterated.         *)

C19_SaveDeterministic ==
    pc = "save" =>
        \A o1, o2 \in IterationOrders(PayloadKeys(p)) :
            SaveFileOf(p, disk[p.sourceFileReader], o1)
                = SaveFileOf(p, disk[p.sourceFileReader], o2)

====
